---- MODULE Spec2Model ----
(***************************************************************************)
(* Model of app.py (SpedBusMD API): the append-only ScanLogs table, the    *)
(* request handlers /scan, /logs/recent and /finalize-expired-arrivals,    *)
(* the inline finalizer finalize_expired_arrivals and the deferred task    *)
(* schedule_auto_no_show.                                                  *)
(*                                                                         *)
(* Every request and every deferred task has its own connection            *)
(* (get_conn, autocommit off).  One action is one database round trip      *)
(* together with the Python code that precedes it.  A statement reads the  *)
(* committed rows plus the uncommitted inserts of its own connection       *)
(* (read committed); closing a connection discards its uncommitted rows.   *)
(* LogId is an IDENTITY column: a value is taken at INSERT time and is     *)
(* not given back by a rollback.                                           *)
(***************************************************************************)
EXTENDS Integers, Sequences, FiniteSets, TLC

\* ------------------------------------------------------------------ bounds
MaxTime == 1          \* the clock utc_now() runs over 0..MaxTime
MaxId == 3            \* INSERT statements executed, concurrent specification
MaxIdSeq == 4         \* INSERT statements executed, sequential specification
MaxFaults == 1        \* at most MaxFaults storage faults are injected
MaxAwake == 1         \* at most MaxAwake deferred tasks are past their sleep

\* Timeout in clock ticks (environment variable NO_SHOW_MINUTES).
NO_SHOW_MINUTES == 1

\* TOP (1000) of the candidate query.
TOP_CANDIDATES == 1000

\* The default of the limit parameter of GET /logs/recent.
RECENT_LIMIT == 50

Procs == {1, 2}     \* request workers, one connection each

\* ------------------------------------------------------------- characters
Upper == <<"A","B","C","D","E","F","G","H","I","J","K","L","M",
           "N","O","P","Q","R","S","T","U","V","W","X","Y","Z">>
Lower == <<"a","b","c","d","e","f","g","h","i","j","k","l","m",
           "n","o","p","q","r","s","t","u","v","w","x","y","z">>

\* str.lower() on one character
lower(c) ==
  IF \E k \in 1..26 : Upper[k] = c
  THEN Lower[CHOOSE k \in 1..26 : Upper[k] = c]
  ELSE c

\* str.upper() on one character
upper(c) ==
  IF \E k \in 1..26 : Lower[k] = c
  THEN Upper[CHOOSE k \in 1..26 : Lower[k] = c]
  ELSE c

\* str.lower() and str.upper() on a string
LowerAll(s) == [k \in 1..Len(s) |-> lower(s[k])]

UpperAll(s) == [k \in 1..Len(s) |-> upper(s[k])]

\* The whitespace str.strip() removes (the ASCII part that the inputs use).
Whitespace == {" ", "\t", "\n"}

RECURSIVE lstrip(_)
lstrip(s) == IF s # <<>> /\ Head(s) \in Whitespace THEN lstrip(Tail(s)) ELSE s

RECURSIVE rstrip(_)
rstrip(s) ==
  IF s # <<>> /\ s[Len(s)] \in Whitespace THEN rstrip(SubSeq(s, 1, Len(s) - 1)) ELSE s

\* str.strip()
strip(s) == rstrip(lstrip(s))

\* ------------------------------------------------------------ event types
VALID_EVENT_TYPES == {"ARRIVED", "RIDE", "NO_CALL", "NO_SHOW"}

\* The alias table, keyed by cleaned character sequences.
EVENT_TYPE_ALIASES ==
  { << <<"a","r","r","i","v","e","d">>, "ARRIVED" >>,
    << <<"a","r","r","i","v","a","l">>, "ARRIVED" >>,
    << <<"w","a","i","t","i","n","g">>, "ARRIVED" >>,
    << <<"w","a","i","t">>, "ARRIVED" >>,
    << <<"r","i","d","e">>, "RIDE" >>,
    << <<"b","o","a","r","d","e","d">>, "RIDE" >>,
    << <<"o","n","b","o","a","r","d">>, "RIDE" >>,
    << <<"n","o","_","c","a","l","l">>, "NO_CALL" >>,
    << <<"n","o","c","a","l","l">>, "NO_CALL" >>,
    << <<"n","o","_","s","h","o","w">>, "NO_SHOW" >>,
    << <<"n","o","s","h","o","w">>, "NO_SHOW" >> }

\* The canonical kinds as character sequences (what `upper in VALID_EVENT_TYPES`
\* compares).
KindChars ==
  { << <<"A","R","R","I","V","E","D">>, "ARRIVED" >>,
    << <<"R","I","D","E">>, "RIDE" >>,
    << <<"N","O","_","C","A","L","L">>, "NO_CALL" >>,
    << <<"N","O","_","S","H","O","W">>, "NO_SHOW" >> }

IsLowerOrUnderscore(c) == c = "_" \/ \E k \in 1..26 : Lower[k] = c

SpaceHyphenToUnderscore(c) == IF c = " " \/ c = "-" THEN "_" ELSE c

\* raw.replace(" ", "_").replace("-", "_")
Underscored(s) == [k \in 1..Len(s) |-> SpaceHyphenToUnderscore(s[k])]

\* The three cleaning lines of normalize_event_type.
CleanEventType(raw) ==
  SelectSeq(Underscored(LowerAll(strip(raw))), IsLowerOrUnderscore)

\* Mutant of normalize_event_type: the re.sub that drops the other characters
\* is left out.
normalize_event_type_KeepsOthers(raw) ==
  LET c == Underscored(LowerAll(strip(raw)))
      u == UpperAll(c)
  IN IF \E a \in EVENT_TYPE_ALIASES : a[1] = c
     THEN (CHOOSE a \in EVENT_TYPE_ALIASES : a[1] = c)[2]
     ELSE IF \E k \in KindChars : k[1] = u
          THEN (CHOOSE k \in KindChars : k[1] = u)[2]
          ELSE "400"

\* normalize_event_type: a kind, or "400" for the HTTPException.
normalize_event_type(raw) ==
  LET c == CleanEventType(raw)
      u == UpperAll(c)
  IN IF \E a \in EVENT_TYPE_ALIASES : a[1] = c
     THEN (CHOOSE a \in EVENT_TYPE_ALIASES : a[1] = c)[2]
     ELSE IF \E k \in KindChars : k[1] = u
          THEN (CHOOSE k \in KindChars : k[1] = u)[2]
          ELSE "400"

\* normalize_student_code: the stripped code, or "400" when it is empty.
normalize_student_code(code) ==
  IF strip(code) = <<>> THEN "400" ELSE strip(code)

\* ----------------------------------------------------------------- inputs
\* dbo.Students: the roster (maintained outside this program).
Students == { <<"S","1">>, <<"S","2">> }

\* The columns of dbo.Students that the lookups read.
StudentRecord(code) ==
  IF code = <<"S","1">>
  THEN [ StudentId |-> 1, StudentName |-> "Ana", DOB |-> "2015-03-01",
         BusNumber |-> "12", ParentPhone |-> "555-0101" ]
  ELSE [ StudentId |-> 2, StudentName |-> "Ben", DOB |-> "2014-11-20",
         BusNumber |-> "7", ParentPhone |-> "" ]

\* Python's None (SQL NULL) for an optional field that was not sent.
None == "None"

\* The bodies of POST /scan the clients send, <<student_code, event_type>> or
\* <<student_code, event_type, driver_code>> (aide_code, stop_code and notes
\* are not sent): scans of one student, of an unknown code, and malformed ones.
ScanInputs ==
  { << <<"S","1">>,     <<"A","r","r","i","v","e","d">> >>,
    << <<" ","S","1">>, <<"b","o","a","r","d","e","d">> >>,
    << <<"S","9">>,     <<"N","O"," ","c","a","l","l">> >>,
    << <<" "," ">>,     <<"r","i","d","e">> >>,
    << <<"S","1">>,     <<"b","a","n","a","n","a">> >> }

\* The same, with the arrival of a second student, and malformed kinds with
\* an unknown and with an empty code.
ScanInputs2 ==
  ScanInputs \cup
  { << <<"S","2"," ">>, <<"w","a","i","t","i","n","g","!">> >>,
    << <<"S","9">>,     <<"r","1","d">> >>,
    << <<>>,            <<"?">> >> }

\* Arrivals of one student recorded by two drivers.
TieInputs ==
  { << <<"S","1">>, <<"A","r","r","i","v","e","d">> >>,
    << <<"S","1">>, <<"a","r","r","i","v","a","l">>, "D7" >> }

\* ---- event_type strings: words, and the ways a client may write a word
Words ==
  {a[1] : a \in EVENT_TYPE_ALIASES} \cup
  { <<>>, <<"_">>, <<"b","a","n","a","n","a">>, <<"o","n","_","b","o","a","r","d">>,
    <<"n","o","_","_","s","h","o","w">>, <<"r","i","d","e","s">>,
    <<"n","o","_","r","i","d","e">>, <<"_","w","a","i","t">> }

\* "_" written as the character c
UnderscoreAs(s, c) == [k \in 1..Len(s) |-> IF s[k] = "_" THEN c ELSE s[k]]

\* The first letter in upper case
Capitalized(s) == [k \in 1..Len(s) |-> IF k = 1 THEN upper(s[k]) ELSE s[k]]

Spellings(w) ==
  { w, UpperAll(w), Capitalized(w),
    <<" ", "\t">> \o w \o <<"\n", " ">>,
    UnderscoreAs(w, " "), UnderscoreAs(w, "-"), UnderscoreAs(UpperAll(w), "-"),
    w \o <<"!">>, <<"1">> \o w \o <<".">>, <<"-">> \o w,
    IF Len(w) >= 2 THEN <<w[1], "2">> \o Tail(w) ELSE w }

EventTypeInputs == UNION {Spellings(w) : w \in Words}

\* A kind as the string of its name.
KindString(kind) == (CHOOSE k \in KindChars : k[2] = kind)[1]

\* scan_req.driver_code
DriverCodeOf(body) == IF Len(body) >= 3 THEN body[3] ELSE None

\* The paths of GET /students/{student_code} the clients send.
StudentInputs == { <<"S","1"," ">>, <<"S","9">>, <<" ">> }

\* ------------------------------------------------------------------ state
VARIABLES
  now,        \* utc_now()
  ScanLogs,   \* the committed rows of dbo.ScanLogs
  nextId,     \* the next IDENTITY value of ScanLogs.LogId
  req,        \* per worker: the request being handled and its connection
  tasks,      \* BackgroundTasks: the schedule_auto_no_show calls in flight
  faults      \* storage faults injected so far

vars == <<now, ScanLogs, nextId, req, tasks, faults>>

NoRow == [LogId |-> 0]
\* No cutoff computed yet: below every cutoff the clock can give.
NoCutoff == 0 - NO_SHOW_MINUTES - 1

\* A worker with no request.  Among the history fields: stale is the set of
\* students whose latest row the candidate query saw as an expired ARRIVED,
\* snap the LogIds committed when it ran, and raced whether a recheck of the
\* pass read, as the latest event of its candidate, a terminal scan committed
\* after the candidate query.
Idle ==
  [ pc |-> "idle", kind |-> "none", scan_req |-> <<>>, response |-> <<>>,
    student_code |-> <<>>, event_type |-> "none",
    cutoff |-> NoCutoff, rows |-> <<>>, i |-> 1, seen |-> 0, inserted |-> 0,
    pending |-> {}, new_id |-> 0, status |-> 0,
    \* history of the request, for the properties
    passIns |-> {}, passFault |-> FALSE, faulted |-> FALSE, stale |-> {},
    snap |-> {}, raced |-> FALSE, scheduled |-> 0, wrote |-> {} ]

Init ==
  /\ now = 0
  /\ ScanLogs = {}
  /\ nextId = 1
  /\ req = [p \in Procs |-> Idle]
  /\ tasks = {}
  /\ faults = 0

\* ---------------------------------------------------------------- queries
\* What a statement on worker p's connection reads.
Visible(p) == ScanLogs \cup req[p].pending

\* Mutant of Newer: rows of one timestamp ordered by LogId ascending.
Newer_LowestId(a, b) ==
  \/ a.EventTimeUtc > b.EventTimeUtc
  \/ a.EventTimeUtc = b.EventTimeUtc /\ a.LogId < b.LogId

\* ORDER BY EventTimeUtc DESC, LogId DESC: row a comes before row b.
Newer(a, b) ==
  \/ a.EventTimeUtc > b.EventTimeUtc
  \/ a.EventTimeUtc = b.EventTimeUtc /\ a.LogId > b.LogId

\* check_sql: SELECT TOP (1) ... WHERE StudentCode = ? ORDER BY EventTimeUtc
\* DESC, LogId DESC; NoRow when the student has no rows.
LatestOf(table, code) ==
  LET mine == {r \in table : r.StudentCode = code}
  IN IF mine = {} THEN NoRow
     ELSE CHOOSE r \in mine : \A o \in mine \ {r} : Newer(r, o)

\* candidates_sql, as a set: the rows that carry their student's MAX(EventTimeUtc),
\* are ARRIVED and are at or before the cutoff.
CandidateRows(table, cutoff) ==
  { s \in table :
      /\ \A o \in table : o.StudentCode = s.StudentCode
                            => o.EventTimeUtc <= s.EventTimeUtc
      /\ s.EventType = "ARRIVED"
      /\ s.EventTimeUtc <= cutoff }

\* The orders in which the candidate query can return a set of rows:
\* ORDER BY EventTimeUtc ASC, rows of equal time in any order, TOP (1000).
CandidateOrders(S) ==
  LET n == Cardinality(S)
      perms == { f \in [1..n -> S] :
                   /\ \A a, b \in 1..n : a # b => f[a] # f[b]
                   /\ \A a, b \in 1..n :
                        a < b => f[a].EventTimeUtc <= f[b].EventTimeUtc }
  IN { IF n > TOP_CANDIDATES THEN SubSeq(f, 1, TOP_CANDIDATES) ELSE f :
       f \in perms }

\* A row as the handlers return it (ScanLogOut).
ListedRow(w) ==
  [ LogId |-> w.LogId, StudentCode |-> w.StudentCode,
    StudentName |-> w.StudentName, DOB |-> w.DOB, BusNumber |-> w.BusNumber,
    EventType |-> w.EventType, EventTimeUtc |-> w.EventTimeUtc,
    DriverCode |-> w.DriverCode, AideCode |-> w.AideCode,
    StopCode |-> w.StopCode, Notes |-> w.Notes ]

\* The listing query of recent_logs: SELECT TOP (limit) ... ORDER BY
\* EventTimeUtc DESC, LogId DESC.
Listing(table, limit) ==
  LET n == Cardinality(table)
      sorted == CHOOSE f \in [1..n -> table] :
                  \A a, b \in 1..n : a < b => Newer(f[a], f[b])
  IN [k \in 1..(IF n > limit THEN limit ELSE n) |-> ListedRow(sorted[k])]

\* The students a finalizer pass is due to convert, seen from table.
StaleStudents(table, cutoff) ==
  { c \in {r.StudentCode : r \in table} :
      LET l == LatestOf(table, c)
      IN l.EventType = "ARRIVED" /\ l.EventTimeUtc <= cutoff }

\* ------------------------------------------------------------ the handlers
\* conn.close() (the handlers' finally) on a connection with uncommitted work:
\* the work is discarded and the request ends with the given status.
Close(r, status) == [r EXCEPT !.pc = "done", !.status = status, !.pending = {}]

\* Where a handler continues when finalize_expired_arrivals returns.
AfterPass(kind) ==
  CASE kind = "scan" -> "lookup"
    [] kind = "recent" -> "recent_select"
    [] kind = "finalize" -> "commit_pass"

\* finalize_expired_arrivals returns: its locals are gone.
Return(r) ==
  [r EXCEPT !.pc = AfterPass(r.kind), !.rows = <<>>, !.i = 1, !.seen = 0,
            !.snap = {}]

\* The candidate loop goes to its next row, or the pass returns.
NextCandidate(r) ==
  IF r.i < Len(r.rows)
  THEN [r EXCEPT !.pc = "check", !.i = r.i + 1, !.seen = 0]
  ELSE Return(r)

\* A new row of dbo.ScanLogs.  seen and live are history: the LogId of the row
\* the writer's recheck read as latest, and whether the student's latest
\* readable row at the INSERT was still an ARRIVED at or before the cutoff.
Row(id, code, type, time, notes, carried, seen, live) ==
  [ LogId |-> id, StudentCode |-> code, EventType |-> type, EventTimeUtc |-> time,
    Notes |-> notes,
    StudentName |-> carried.StudentName, DOB |-> carried.DOB,
    BusNumber |-> carried.BusNumber, DriverCode |-> carried.DriverCode,
    AideCode |-> carried.AideCode, StopCode |-> carried.StopCode,
    seen |-> seen, live |-> live ]

\* The student and actor columns of a row.
Carried(w) ==
  [ StudentName |-> w.StudentName, DOB |-> w.DOB, BusNumber |-> w.BusNumber,
    DriverCode |-> w.DriverCode, AideCode |-> w.AideCode,
    StopCode |-> w.StopCode ]

\* The student and actor columns of the row a /scan inserts: the Students
\* record and the optional fields of the body.
ScanCarried(code, body) ==
  [ StudentName |-> StudentRecord(code).StudentName,
    DOB |-> StudentRecord(code).DOB,
    BusNumber |-> StudentRecord(code).BusNumber,
    DriverCode |-> DriverCodeOf(body), AideCode |-> None, StopCode |-> None ]

\* scan_req.notes: what the clients send as notes, never the finalizer's note.
ScanNotes == "scan"

\* A terminal event recorded by a /scan.
TerminalScan(w) ==
  w.Notes = ScanNotes /\ w.EventType \in {"RIDE", "NO_CALL", "NO_SHOW"}

StillPending(table, code, cutoff) ==
  LET l == LatestOf(table, code)
  IN l.LogId # 0 /\ l.EventType = "ARRIVED" /\ l.EventTimeUtc <= cutoff

\* The outcome of a finished request or task run stays on record until its
\* worker is released (Finish, TaskEnd), which is the next step taken.
Settled ==
  /\ \A p \in Procs : req[p].pc # "done"
  /\ \A t \in tasks : t.pc # "done"

\* No request is being handled and no deferred task is past its sleep.
Calm ==
  /\ \A p \in Procs : req[p].pc = "idle"
  /\ \A t \in tasks : t.pc = "sleep"

\* A request is handed to the first free worker.  With `alone`, requests and
\* deferred tasks are served one at a time.
Free(p, alone) ==
  /\ Settled
  /\ alone => Calm
  /\ req[p].pc = "idle"
  /\ \A q \in Procs : q < p => req[q].pc # "idle"

\* Mutant of StartScan: the kind is not validated before the connection is
\* opened.
StartScan_KindUnchecked(p, body, alone) ==
  /\ Free(p, alone)
  /\ LET sc == normalize_student_code(body[1])
         et == normalize_event_type(body[2])
     IN req' = [req EXCEPT ![p] =
          IF sc = "400"
          THEN [Idle EXCEPT !.pc = "done", !.kind = "scan", !.scan_req = body,
                            !.status = 400]
          ELSE [Idle EXCEPT !.pc = "select", !.kind = "scan", !.scan_req = body,
                            !.student_code = sc, !.event_type = et]]
  /\ UNCHANGED <<now, ScanLogs, nextId, tasks, faults>>

\* POST /scan, up to get_conn: the two normalizers.
StartScan(p, body, alone) ==
  /\ Free(p, alone)
  /\ LET sc == normalize_student_code(body[1])
         et == normalize_event_type(body[2])
     IN req' = [req EXCEPT ![p] =
          IF sc = "400" \/ et = "400"
          THEN [Idle EXCEPT !.pc = "done", !.kind = "scan", !.scan_req = body,
                            !.status = 400]
          ELSE [Idle EXCEPT !.pc = "select", !.kind = "scan", !.scan_req = body,
                            !.student_code = sc, !.event_type = et]]
  /\ UNCHANGED <<now, ScanLogs, nextId, tasks, faults>>

\* GET /logs/recent, up to get_conn.
StartRecent(p, alone) ==
  /\ Free(p, alone)
  /\ req' = [req EXCEPT ![p] = [Idle EXCEPT !.pc = "select", !.kind = "recent"]]
  /\ UNCHANGED <<now, ScanLogs, nextId, tasks, faults>>

\* POST /finalize-expired-arrivals, up to get_conn.
StartFinalize(p, alone) ==
  /\ Free(p, alone)
  /\ req' = [req EXCEPT ![p] = [Idle EXCEPT !.pc = "select", !.kind = "finalize"]]
  /\ UNCHANGED <<now, ScanLogs, nextId, tasks, faults>>

\* finalize_expired_arrivals: the cutoff and the candidate query.
PassSelect(p) ==
  /\ Settled
  /\ req[p].pc = "select"
  /\ LET cutoff == now - NO_SHOW_MINUTES
     IN \E rows \in CandidateOrders(CandidateRows(Visible(p), cutoff)) :
          req' = [req EXCEPT ![p] =
            LET r == [req[p] EXCEPT !.cutoff = cutoff, !.rows = rows, !.i = 1,
                                    !.stale = StaleStudents(Visible(p), cutoff),
                                    !.snap = {w.LogId : w \in ScanLogs}]
            IN IF rows = <<>>
               THEN Return(r)
               ELSE [r EXCEPT !.pc = "check"]]
  /\ UNCHANGED <<now, ScanLogs, nextId, tasks, faults>>

\* Mutant of PassCheck: the recheck tests the timestamp of the latest row but
\* not its type.
PassCheck_NoTypeTest(p) ==
  /\ Settled
  /\ req[p].pc = "check"
  /\ LET r == req[p]
         latest == LatestOf(Visible(p), r.rows[r.i].StudentCode)
     IN req' = [req EXCEPT ![p] =
          IF latest.LogId = 0 THEN NextCandidate(r)
          ELSE IF latest.EventTimeUtc > r.cutoff THEN NextCandidate(r)
          ELSE [r EXCEPT !.pc = "insert", !.seen = latest.LogId]]
  /\ UNCHANGED <<now, ScanLogs, nextId, tasks, faults>>

\* finalize_expired_arrivals: the recheck of one candidate.
PassCheck(p) ==
  /\ Settled
  /\ req[p].pc = "check"
  /\ LET r == req[p]
         latest == LatestOf(Visible(p), r.rows[r.i].StudentCode)
         r2 == [r EXCEPT !.raced =
                  r.raced \/ (/\ latest.LogId # 0
                              /\ TerminalScan(latest)
                              /\ latest.LogId \notin r.snap)]
     IN req' = [req EXCEPT ![p] =
          IF latest.LogId = 0 THEN NextCandidate(r2)
          ELSE IF latest.EventType # "ARRIVED" THEN NextCandidate(r2)
          ELSE IF latest.EventTimeUtc > r.cutoff THEN NextCandidate(r2)
          ELSE [r2 EXCEPT !.pc = "insert", !.seen = latest.LogId]]
  /\ UNCHANGED <<now, ScanLogs, nextId, tasks, faults>>

\* Mutant of PassInsert: the loop commits what it has inserted so far before
\* each INSERT.
PassInsert_CommitsInLoop(p, limit) ==
  /\ Settled
  /\ req[p].pc = "insert"
  /\ nextId <= limit
  /\ LET r == req[p]
         code == r.rows[r.i].StudentCode
         row == Row(nextId, code, "NO_SHOW", now, "auto", Carried(r.rows[r.i]),
                    r.seen, StillPending(Visible(p), code, r.cutoff))
     IN req' = [req EXCEPT ![p] =
          NextCandidate([r EXCEPT !.pending = {row},
                                  !.inserted = r.inserted + 1,
                                  !.passIns = r.passIns \cup {nextId}])]
  /\ ScanLogs' = ScanLogs \cup req[p].pending
  /\ nextId' = nextId + 1
  /\ UNCHANGED <<now, tasks, faults>>

\* finalize_expired_arrivals: the INSERT of one NO_SHOW row.
PassInsert(p, limit) ==
  /\ Settled
  /\ req[p].pc = "insert"
  /\ nextId <= limit
  /\ LET r == req[p]
         code == r.rows[r.i].StudentCode
         row == Row(nextId, code, "NO_SHOW", now, "auto", Carried(r.rows[r.i]),
                    r.seen, StillPending(Visible(p), code, r.cutoff))
     IN req' = [req EXCEPT ![p] =
          NextCandidate([r EXCEPT !.pending = r.pending \cup {row},
                                  !.inserted = r.inserted + 1,
                                  !.passIns = r.passIns \cup {nextId}])]
  /\ nextId' = nextId + 1
  /\ UNCHANGED <<now, ScanLogs, tasks, faults>>

\* Mutant of ScanLookup: the work of the inline pass is committed before the
\* lookup.
ScanLookup_CommitsPass(p) ==
  /\ Settled
  /\ req[p].pc = "lookup"
  /\ ScanLogs' = ScanLogs \cup req[p].pending
  /\ req' = [req EXCEPT ![p] =
       IF req[p].student_code \notin Students
       THEN Close(req[p], 404)
       ELSE [req[p] EXCEPT !.pc = "scan_insert", !.pending = {}]]
  /\ UNCHANGED <<now, nextId, tasks, faults>>

\* scan_student: the Students lookup; 404 for an unknown code.
ScanLookup(p) ==
  /\ Settled
  /\ req[p].pc = "lookup"
  /\ req' = [req EXCEPT ![p] =
       IF req[p].student_code \notin Students
       THEN Close(req[p], 404)
       ELSE [req[p] EXCEPT !.pc = "scan_insert"]]
  /\ UNCHANGED <<now, ScanLogs, nextId, tasks, faults>>

\* scan_student: now_utc and the INSERT of the scanned row.
ScanInsert(p, limit) ==
  /\ Settled
  /\ req[p].pc = "scan_insert"
  /\ nextId <= limit
  /\ LET r == req[p]
         row == Row(nextId, r.student_code, r.event_type, now, ScanNotes,
                    ScanCarried(r.student_code, r.scan_req), 0, TRUE)
     IN req' = [req EXCEPT ![p] =
          [r EXCEPT !.pc = "scan_commit", !.pending = r.pending \cup {row},
                    !.new_id = nextId]]
  /\ nextId' = nextId + 1
  /\ UNCHANGED <<now, ScanLogs, tasks, faults>>

\* scan_student: conn.commit().
ScanCommit(p) ==
  /\ Settled
  /\ req[p].pc = "scan_commit"
  /\ ScanLogs' = ScanLogs \cup req[p].pending
  /\ req' = [req EXCEPT ![p] =
       [req[p] EXCEPT !.pc = "respond", !.pending = {},
                      !.wrote = {w.LogId : w \in req[p].pending}]]
  /\ UNCHANGED <<now, nextId, tasks, faults>>

\* A schedule_auto_no_show call handed to BackgroundTasks; it starts to sleep
\* when the response has been sent.
Task(code, arrived, id) ==
  [ student_code |-> code, arrived_time_utc |-> arrived, id |-> id,
    slept_from |-> now, pc |-> "sleep", latest |-> NoRow, cutoff |-> NoCutoff,
    pending |-> {},
    \* history of the run, for the properties
    fault |-> FALSE, wrote |-> {} ]

\* The body of the response of scan_student; mine is the row it inserted, with
\* now_utc as timestamp.
ScanResponse(r, mine) ==
  [ LogId |-> r.new_id, StudentCode |-> r.student_code,
    StudentName |-> StudentRecord(r.student_code).StudentName,
    DOB |-> StudentRecord(r.student_code).DOB,
    BusNumber |-> StudentRecord(r.student_code).BusNumber,
    EventType |-> r.event_type, EventTimeUtc |-> mine.EventTimeUtc,
    DriverCode |-> DriverCodeOf(r.scan_req), AideCode |-> None,
    StopCode |-> None, Notes |-> ScanNotes ]

\* Mutant of ScanRespond: the task is added whatever the kind.
ScanRespond_AnyKind(p) ==
  /\ Settled
  /\ req[p].pc = "respond"
  /\ LET r == req[p]
         mine == CHOOSE w \in ScanLogs : w.LogId = r.new_id
     IN /\ tasks' = tasks \cup {Task(r.student_code, mine.EventTimeUtc, r.new_id)}
        /\ req' = [req EXCEPT ![p] =
             [r EXCEPT !.pc = "done", !.status = 200, !.scheduled = 1,
                       !.response = ScanResponse(r, mine)]]
  /\ UNCHANGED <<now, ScanLogs, nextId, faults>>

\* scan_student after the commit: background.add_task for an ARRIVED, and the
\* response.
ScanRespond(p) ==
  /\ Settled
  /\ req[p].pc = "respond"
  /\ LET r == req[p]
         mine == CHOOSE w \in ScanLogs : w.LogId = r.new_id
     IN IF r.event_type = "ARRIVED"
        THEN /\ tasks' = tasks \cup
                  {Task(r.student_code, mine.EventTimeUtc, r.new_id)}
             /\ req' = [req EXCEPT ![p] =
                  [r EXCEPT !.pc = "done", !.status = 200, !.scheduled = 1,
                            !.response = ScanResponse(r, mine)]]
        ELSE /\ tasks' = tasks
             /\ req' = [req EXCEPT ![p] =
                  [r EXCEPT !.pc = "done", !.status = 200,
                            !.response = ScanResponse(r, mine)]]
  /\ UNCHANGED <<now, ScanLogs, nextId, faults>>

\* recent_logs: the listing, then conn.rollback().
RecentSelect(p) ==
  /\ Settled
  /\ req[p].pc = "recent_select"
  /\ req' = [req EXCEPT ![p] =
       [Close(req[p], 200) EXCEPT !.response = Listing(Visible(p), RECENT_LIMIT)]]
  /\ UNCHANGED <<now, ScanLogs, nextId, tasks, faults>>

\* Mutant of FinalizeCommit: conn.rollback() in the place of conn.commit().
FinalizeCommit_Rollback(p) ==
  /\ Settled
  /\ req[p].pc = "commit_pass"
  /\ req' = [req EXCEPT ![p] = Close(req[p], 200)]
  /\ UNCHANGED <<now, ScanLogs, nextId, tasks, faults>>

\* Mutant of FinalizeCommit: the pass has rewritten the ARRIVED rows it
\* converted, as an UPDATE would, in the place of adding rows.
FinalizeCommit_Updates(p) ==
  /\ Settled
  /\ req[p].pc = "commit_pass"
  /\ ScanLogs' = {w \in ScanLogs : \A n \in req[p].pending : n.seen # w.LogId}
                   \cup req[p].pending
  /\ req' = [req EXCEPT ![p] =
       [req[p] EXCEPT !.pc = "done", !.status = 200, !.pending = {},
                      !.wrote = {w.LogId : w \in req[p].pending}]]
  /\ UNCHANGED <<now, nextId, tasks, faults>>

\* finalize_now: conn.commit() and the count.
FinalizeCommit(p) ==
  /\ Settled
  /\ req[p].pc = "commit_pass"
  /\ ScanLogs' = ScanLogs \cup req[p].pending
  /\ req' = [req EXCEPT ![p] =
       [req[p] EXCEPT !.pc = "done", !.status = 200, !.pending = {},
                      !.wrote = {w.LogId : w \in req[p].pending}]]
  /\ UNCHANGED <<now, nextId, tasks, faults>>

\* GET /students/{student_code}: the normalizer, the lookup, rollback, close.
GetStudent(p, code, alone) ==
  /\ Free(p, alone)
  /\ LET sc == normalize_student_code(code)
         r == [Idle EXCEPT !.pc = "done", !.kind = "student"]
     IN req' = [req EXCEPT ![p] =
          IF sc = "400" THEN [r EXCEPT !.status = 400]
          ELSE IF sc \notin Students
               THEN [r EXCEPT !.student_code = sc, !.status = 404]
               ELSE [r EXCEPT !.student_code = sc, !.status = 200,
                              !.response = StudentRecord(sc)]]
  /\ UNCHANGED <<now, ScanLogs, nextId, tasks, faults>>

\* GET /health: SELECT 1, rollback, close.
Health(p, alone) ==
  /\ Free(p, alone)
  /\ req' = [req EXCEPT ![p] =
       [Idle EXCEPT !.pc = "done", !.kind = "health", !.status = 200,
                    !.response = [ok |-> TRUE, db |-> "ok"]]]
  /\ UNCHANGED <<now, ScanLogs, nextId, tasks, faults>>

\* A storage fault raised by the statement a request is about to execute: no
\* handler catches it, the finally closes the connection, the client gets 500.
RequestFault(p) ==
  /\ Settled
  /\ req[p].pc \in {"select", "check", "insert", "lookup", "scan_insert",
                    "scan_commit", "recent_select", "commit_pass"}
  /\ faults < MaxFaults
  /\ faults' = faults + 1
  /\ req' = [req EXCEPT ![p] =
       [Close(req[p], 500) EXCEPT
          !.faulted = TRUE,
          !.passFault = req[p].pc \in {"select", "check", "insert"}]]
  /\ UNCHANGED <<now, ScanLogs, nextId, tasks>>

\* The response has been delivered; the worker takes the next request.
Finish(p) ==
  /\ req[p].pc = "done"
  /\ req' = [req EXCEPT ![p] = Idle]
  /\ UNCHANGED <<now, ScanLogs, nextId, tasks, faults>>

\* ------------------------------------------------------- the deferred task
\* time.sleep(max(0, minutes * 60)), in clock ticks.
SleepTicks == IF NO_SHOW_MINUTES > 0 THEN NO_SHOW_MINUTES ELSE 0

\* The sleep of task t is over and a worker thread is free to run it on.
Due(t, alone) ==
  /\ alone => Calm
  /\ t.pc = "sleep"
  /\ now >= t.slept_from + SleepTicks
  /\ Cardinality({u \in tasks : u.pc # "sleep"}) < MaxAwake

\* The task has returned (or its fault has been swallowed): its connection is
\* closed, and what it read stays on record until TaskEnd.
Returned(t, fault, wrote) ==
  [t EXCEPT !.pc = "done", !.pending = {}, !.fault = fault, !.wrote = wrote]

\* schedule_auto_no_show: the sleep is over; get_conn and the latest-row query.
\* With no row: rollback and return.
TaskSelect(t, alone) ==
  /\ Settled
  /\ t \in tasks
  /\ Due(t, alone)
  /\ LET latest == LatestOf(ScanLogs, t.student_code)
         u == [t EXCEPT !.pc = "decide", !.latest = latest]
     IN tasks' = (tasks \ {t}) \cup
          {IF latest.LogId = 0 THEN Returned(u, FALSE, {}) ELSE u}
  /\ UNCHANGED <<now, ScanLogs, nextId, req, faults>>

\* Mutant of TaskDecide: the type of the row read is not tested.
TaskDecide_NoTypeTest(t, limit) ==
  /\ Settled
  /\ t \in tasks
  /\ t.pc = "decide"
  /\ LET cutoff == now - NO_SHOW_MINUTES
         u == [t EXCEPT !.cutoff = cutoff]
     IN IF t.latest.EventTimeUtc <= cutoff
        THEN /\ nextId <= limit
             /\ LET row == Row(nextId, t.student_code, "NO_SHOW", now, "bg",
                               Carried(t.latest), t.latest.LogId,
                               StillPending(ScanLogs, t.student_code, cutoff))
                IN tasks' = (tasks \ {t}) \cup
                     {[u EXCEPT !.pc = "commit", !.pending = {row}]}
             /\ nextId' = nextId + 1
        ELSE /\ tasks' = (tasks \ {t}) \cup {Returned(u, FALSE, {})}
             /\ nextId' = nextId
  /\ UNCHANGED <<now, ScanLogs, req, faults>>

\* schedule_auto_no_show: the cutoff, then the INSERT of a NO_SHOW row when
\* the row read is an ARRIVED at or before the cutoff, else rollback and return.
TaskDecide(t, limit) ==
  /\ Settled
  /\ t \in tasks
  /\ t.pc = "decide"
  /\ LET cutoff == now - NO_SHOW_MINUTES
         u == [t EXCEPT !.cutoff = cutoff]
     IN IF t.latest.EventType = "ARRIVED" /\ t.latest.EventTimeUtc <= cutoff
        THEN /\ nextId <= limit
             /\ LET row == Row(nextId, t.student_code, "NO_SHOW", now, "bg",
                               Carried(t.latest), t.latest.LogId,
                               StillPending(ScanLogs, t.student_code, cutoff))
                IN tasks' = (tasks \ {t}) \cup
                     {[u EXCEPT !.pc = "commit", !.pending = {row}]}
             /\ nextId' = nextId + 1
        ELSE /\ tasks' = (tasks \ {t}) \cup {Returned(u, FALSE, {})}
             /\ nextId' = nextId
  /\ UNCHANGED <<now, ScanLogs, req, faults>>

\* Mutant of TaskCommit: conn.rollback() in the place of conn.commit().
TaskCommit_Rollback(t) ==
  /\ Settled
  /\ t \in tasks
  /\ t.pc = "commit"
  /\ tasks' = (tasks \ {t}) \cup {Returned(t, FALSE, {})}
  /\ UNCHANGED <<now, ScanLogs, nextId, req, faults>>

\* schedule_auto_no_show: conn.commit().
TaskCommit(t) ==
  /\ Settled
  /\ t \in tasks
  /\ t.pc = "commit"
  /\ ScanLogs' = ScanLogs \cup t.pending
  /\ tasks' = (tasks \ {t}) \cup
       {Returned(t, FALSE, {w.LogId : w \in t.pending})}
  /\ UNCHANGED <<now, nextId, req, faults>>

\* A storage fault in the deferred task: `except Exception: pass`, after the
\* inner finally has closed the connection.
TaskFault(t, alone) ==
  /\ Settled
  /\ t \in tasks
  /\ Due(t, alone) \/ t.pc \in {"decide", "commit"}
  /\ faults < MaxFaults
  /\ faults' = faults + 1
  /\ tasks' = (tasks \ {t}) \cup
       {Returned(t, TRUE, {})}
  /\ UNCHANGED <<now, ScanLogs, nextId, req>>

\* The worker thread of a returned task is released.
TaskEnd(t) ==
  /\ t \in tasks
  /\ t.pc = "done"
  /\ tasks' = tasks \ {t}
  /\ UNCHANGED <<now, ScanLogs, nextId, req, faults>>

\* Time passes.
Tick ==
  /\ Settled
  /\ now < MaxTime
  /\ now' = now + 1
  /\ UNCHANGED <<ScanLogs, nextId, req, tasks, faults>>

\* ----------------------------------------------------------- specification
\* Concurrent requests and deferred tasks, on a storage that does not fail.
Next ==
  \/ \E p \in Procs, body \in ScanInputs : StartScan(p, body, FALSE)
  \/ \E p \in Procs : StartRecent(p, FALSE)
  \/ \E p \in Procs : StartFinalize(p, FALSE)
  \/ \E p \in Procs, code \in StudentInputs : GetStudent(p, code, FALSE)
  \/ \E p \in Procs : Health(p, FALSE)
  \/ \E p \in Procs : PassSelect(p)
  \/ \E p \in Procs : PassCheck(p)
  \/ \E p \in Procs : PassInsert(p, MaxId)
  \/ \E p \in Procs : ScanLookup(p)
  \/ \E p \in Procs : ScanInsert(p, MaxId)
  \/ \E p \in Procs : ScanCommit(p)
  \/ \E p \in Procs : ScanRespond(p)
  \/ \E p \in Procs : RecentSelect(p)
  \/ \E p \in Procs : FinalizeCommit(p)
  \/ \E p \in Procs : Finish(p)
  \/ \E t \in tasks : TaskSelect(t, FALSE)
  \/ \E t \in tasks : TaskDecide(t, MaxId)
  \/ \E t \in tasks : TaskCommit(t)
  \/ \E t \in tasks : TaskEnd(t)
  \/ Tick

Spec == Init /\ [][Next]_vars

\* One request or deferred task at a time, for two students, on a storage
\* that may fail.
SeqNext ==
  \/ \E p \in Procs, body \in ScanInputs2 : StartScan(p, body, TRUE)
  \/ \E p \in Procs : StartRecent(p, TRUE)
  \/ \E p \in Procs : StartFinalize(p, TRUE)
  \/ \E p \in Procs, code \in StudentInputs : GetStudent(p, code, TRUE)
  \/ \E p \in Procs : Health(p, TRUE)
  \/ \E p \in Procs : PassSelect(p)
  \/ \E p \in Procs : PassCheck(p)
  \/ \E p \in Procs : PassInsert(p, MaxIdSeq)
  \/ \E p \in Procs : ScanLookup(p)
  \/ \E p \in Procs : ScanInsert(p, MaxIdSeq)
  \/ \E p \in Procs : ScanCommit(p)
  \/ \E p \in Procs : ScanRespond(p)
  \/ \E p \in Procs : RecentSelect(p)
  \/ \E p \in Procs : FinalizeCommit(p)
  \/ \E p \in Procs : RequestFault(p)
  \/ \E p \in Procs : Finish(p)
  \/ \E t \in tasks : TaskSelect(t, TRUE)
  \/ \E t \in tasks : TaskDecide(t, MaxIdSeq)
  \/ \E t \in tasks : TaskCommit(t)
  \/ \E t \in tasks : TaskFault(t, TRUE)
  \/ \E t \in tasks : TaskEnd(t)
  \/ Tick

SeqSpec == Init /\ [][SeqNext]_vars

\* normalize_event_type on its own: worker 1 holds an event_type string.
NormInit ==
  /\ now = 0
  /\ ScanLogs = {}
  /\ nextId = 1
  /\ tasks = {}
  /\ faults = 0
  /\ \E raw \in EventTypeInputs :
       req = [p \in Procs |->
                IF p = 1
                THEN [Idle EXCEPT !.pc = "norm", !.kind = "norm",
                                  !.scan_req = << <<"S","1">>, raw >>]
                ELSE Idle]

\* event_type = normalize_event_type(scan_req.event_type)
Normalize(p) ==
  /\ req[p].pc = "norm"
  /\ LET et == normalize_event_type(req[p].scan_req[2])
     IN req' = [req EXCEPT ![p] =
          IF et = "400"
          THEN [req[p] EXCEPT !.pc = "done", !.event_type = et, !.status = 400]
          ELSE [req[p] EXCEPT !.pc = "renorm", !.event_type = et]]
  /\ UNCHANGED <<now, ScanLogs, nextId, tasks, faults>>

\* normalize_event_type applied to the kind it has returned.
Renormalize(p) ==
  /\ req[p].pc = "renorm"
  /\ LET out == KindString(req[p].event_type)
         et == normalize_event_type(out)
     IN req' = [req EXCEPT ![p] =
          [req[p] EXCEPT !.pc = "done", !.kind = "renorm",
                         !.scan_req = <<req[p].scan_req[1], out>>,
                         !.event_type = et,
                         !.status = IF et = "400" THEN 400 ELSE 200]]
  /\ UNCHANGED <<now, ScanLogs, nextId, tasks, faults>>

NormNext ==
  \/ \E p \in Procs : Normalize(p)
  \/ \E p \in Procs : Renormalize(p)
  \/ \E p \in Procs : Finish(p)

NormSpec == NormInit /\ [][NormNext]_vars

\* One request or deferred task at a time, arrivals of one student by two
\* drivers, on a storage that does not fail.
TieNext ==
  \/ \E p \in Procs, body \in TieInputs : StartScan(p, body, TRUE)
  \/ \E p \in Procs : StartFinalize(p, TRUE)
  \/ \E p \in Procs : PassSelect(p)
  \/ \E p \in Procs : PassCheck(p)
  \/ \E p \in Procs : PassInsert(p, MaxIdSeq)
  \/ \E p \in Procs : ScanLookup(p)
  \/ \E p \in Procs : ScanInsert(p, MaxIdSeq)
  \/ \E p \in Procs : ScanCommit(p)
  \/ \E p \in Procs : ScanRespond(p)
  \/ \E p \in Procs : FinalizeCommit(p)
  \/ \E p \in Procs : Finish(p)
  \/ \E t \in tasks : TaskSelect(t, TRUE)
  \/ \E t \in tasks : TaskDecide(t, MaxIdSeq)
  \/ \E t \in tasks : TaskCommit(t)
  \/ \E t \in tasks : TaskEnd(t)
  \/ Tick

TieSpec == Init /\ [][TieNext]_vars

\* The same with its scheduling: the clock advances, a served request
\* releases its worker, and BackgroundTasks runs every task it was given.
LiveSpec ==
  /\ Init /\ [][TieNext]_vars
  /\ WF_vars(Tick)
  /\ WF_vars(\E p \in Procs : Finish(p))
  /\ WF_vars(\E t \in tasks : TaskSelect(t, TRUE))
  /\ WF_vars(\E t \in tasks : TaskDecide(t, MaxIdSeq))
  /\ WF_vars(\E t \in tasks : TaskCommit(t))
  /\ WF_vars(\E t \in tasks : TaskEnd(t))

\* ------------------------------------------------------------- properties
Ids(table) == {w.LogId : w \in table}

\* A row written by a finalizer (inline pass or deferred task).
Auto(w) == w.Notes \in {"auto", "bg"}

\* Every row, committed or not.
AllRows ==
  ScanLogs \cup UNION {req[p].pending : p \in Procs}
           \cup UNION {t.pending : t \in tasks}

\* C1: no ARRIVED row is converted twice -- the committed log never holds two
\* automatically inserted NO_SHOW rows whose finalizers both read the same
\* ARRIVED row as the student's latest event.  (Does not hold: two finalizers
\* on separate connections both pass the recheck before either commits.)
C1_NoDoubleConversion ==
  \A a, b \in ScanLogs :
    (Auto(a) /\ Auto(b) /\ a.seen = b.seen) => a = b

\* C2: whenever a finalizer inserts an automatic NO_SHOW row, the student's
\* latest event readable at the moment of the INSERT is an ARRIVED at or
\* before the cutoff.  (Does not hold: a /scan can commit between the recheck
\* and the INSERT.)
C2_NeverDowngraded ==
  \A w \in AllRows : Auto(w) => w.live

\* The rows a /scan committed for the current candidate of worker p's pass
\* after the pass ran its candidate query.
RacedTerminals(p) ==
  { w \in ScanLogs :
      /\ TerminalScan(w)
      /\ w.StudentCode = req[p].rows[req[p].i].StudentCode
      /\ w.LogId \notin req[p].snap }

\* C3 as claimed: a recheck that follows the commit of a terminal scan for the
\* candidate, made after the candidate query, never goes on to the INSERT.
\* (Does not hold: the terminal scan can carry an older timestamp than the
\* ARRIVED row, and the recheck then still reads the ARRIVED row as latest.)
C3_SkipsAfterAnyTerminal ==
  [][\A p \in Procs :
       (req[p].pc = "check" /\ RacedTerminals(p) # {})
         => req'[p].pc # "insert"]_vars

\* C3 as amended: a recheck never goes on to the INSERT when the student's
\* latest event (timestamp, then LogId) is a terminal scan committed after the
\* candidate query.
C3_SkipsAfterLatestTerminal ==
  [][\A p \in Procs :
       (/\ req[p].pc = "check"
        /\ \E w \in RacedTerminals(p) :
             w = LatestOf(Visible(p), w.StudentCode))
         => req'[p].pc # "insert"]_vars

\* C3 witness: a pass whose recheck read such a terminal scan has returned
\* without inserting a row.
C3_Witness ==
  \E p \in Procs :
    /\ req[p].pc = "commit_pass"
    /\ req[p].stale # {}
    /\ req[p].raced
    /\ req[p].inserted = 0

\* The rows of `table` with a LogId in `ids`.
RowsOf(table, ids) == {w \in table : w.LogId \in ids}

\* Worker p has finished a request of the given kind.
Ended(p, kind) == req[p].pc = "done" /\ req[p].kind = kind

\* C4: with one request at a time, a committed POST /finalize-expired-arrivals
\* inserts exactly one NO_SHOW row for every student whose latest event was an
\* expired ARRIVED and none for anyone else, returns the number of rows it
\* inserted, leaves that NO_SHOW as the student's latest event, and leaves
\* nothing for a pass run at the same clock reading to convert; a pass that
\* finds no expired ARRIVED inserts nothing.
C4_SequentialIdempotence ==
  \A p \in Procs :
    (Ended(p, "finalize") /\ req[p].status = 200) =>
      LET r == req[p]
          mine == RowsOf(ScanLogs, r.wrote)
      IN /\ r.inserted = Cardinality(r.wrote)
         /\ r.wrote = r.passIns
         /\ \A w \in mine : w.EventType = "NO_SHOW" /\ w.StudentCode \in r.stale
         /\ \A c \in r.stale :
              /\ Cardinality({w \in mine : w.StudentCode = c}) = 1
              /\ LatestOf(ScanLogs, c) \in mine
         /\ r.stale = {} => r.inserted = 0
         /\ r.cutoff = now - NO_SHOW_MINUTES
              => StaleStudents(ScanLogs, now - NO_SHOW_MINUTES) = {}

\* C4 witness: a committed pass has converted a student.
C4_Witness ==
  \E p \in Procs :
    /\ Ended(p, "finalize") /\ req[p].status = 200
    /\ req[p].stale # {}
    /\ req[p].inserted >= 1
    /\ req[p].cutoff = now - NO_SHOW_MINUTES

\* C5: when GET /logs/recent has completed without error, every student whose
\* latest event was an expired ARRIVED when its pass ran has a NO_SHOW row as
\* latest persisted event.  (Does not hold: recent_logs rolls back.)
C5_RecentFinalizes ==
  \A p \in Procs :
    (Ended(p, "recent") /\ req[p].status = 200) =>
      \A c \in req[p].stale : LatestOf(ScanLogs, c).EventType = "NO_SHOW"

\* C6: a POST /scan for a code that is not in Students ends with 404, has
\* committed nothing -- no row of its own, no row of its inline pass, no row
\* for that code at all -- and has scheduled no deferred task.
C6_UnknownStudent ==
  \A p \in Procs :
    (Ended(p, "scan") /\ req[p].student_code # <<>>
                      /\ req[p].student_code \notin Students) =>
      /\ req[p].status = 404
      /\ req[p].wrote = {}
      /\ req[p].pending = {}
      /\ req[p].passIns \cap Ids(ScanLogs) = {}
      /\ req[p].new_id = 0
      /\ req[p].scheduled = 0
      /\ \A w \in ScanLogs : w.StudentCode # req[p].student_code
      /\ \A t \in tasks : t.student_code # req[p].student_code

\* C6 witness: such a scan has ended after its inline pass had inserted a row.
C6_Witness ==
  \E p \in Procs :
    /\ Ended(p, "scan")
    /\ req[p].student_code \notin Students
    /\ req[p].status = 404
    /\ req[p].passIns # {}

\* C7: when a request has ended, normally or by a fault, the committed log
\* holds every NO_SHOW row its finalizer pass inserted, or none of them.
C7_BatchAtomicity ==
  \A p \in Procs :
    req[p].pc = "done" =>
      \/ req[p].passIns \subseteq Ids(ScanLogs)
      \/ req[p].passIns \cap Ids(ScanLogs) = {}

\* C7 witness: a request whose pass had inserted two rows has ended by a
\* fault.
C7_Witness ==
  \E p \in Procs :
    /\ req[p].pc = "done"
    /\ req[p].status = 500
    /\ Cardinality(req[p].passIns) = 2

\* C8: a request whose inline pass met a storage fault does not fail: the pass
\* returns zero and the request goes on.  (Does not hold: the fault leaves
\* finalize_expired_arrivals and the handler as an exception.)
C8_PassFaultIsLocal ==
  \A p \in Procs :
    (req[p].pc = "done" /\ req[p].passFault) => req[p].status # 500

\* C9: a successful ARRIVED scan has scheduled exactly one deferred task, for
\* its student and its committed row; any other scan has scheduled none; a
\* task exists only for a committed ARRIVED row, and is past its sleep only
\* when the timeout has elapsed since the row's timestamp.
C9_OneTaskPerArrival ==
  /\ \A p \in Procs :
       Ended(p, "scan") =>
         LET r == req[p]
             mine == {t \in tasks : t.id = r.new_id}
         IN IF r.status = 200 /\ r.event_type = "ARRIVED"
            THEN /\ r.scheduled = 1
                 /\ Cardinality(mine) = 1
                 /\ \A t \in mine : t.student_code = r.student_code
            ELSE /\ r.scheduled = 0
                 /\ r.new_id # 0 => mine = {}
  /\ \A t \in tasks :
       /\ \E w \in ScanLogs :
            /\ w.LogId = t.id
            /\ w.EventType = "ARRIVED"
            /\ w.StudentCode = t.student_code
            /\ w.EventTimeUtc = t.arrived_time_utc
       /\ t.pc # "sleep" => now >= t.arrived_time_utc + NO_SHOW_MINUTES

\* C9 witness: the task of a committed ARRIVED scan has woken up.
C9_Witness ==
  \E t \in tasks : t.pc = "decide" /\ t.latest.LogId = t.id

\* C10: a run of the deferred task that read no row, a row that is not
\* ARRIVED, or an ARRIVED after its cutoff, or that met a storage fault, has
\* committed nothing; and no request fails on a fault that is not its own.
C10_TaskIsSafeNoOp ==
  /\ \A t \in tasks :
       (/\ t.pc = "done"
        /\ \/ t.fault
           \/ t.latest.LogId = 0
           \/ t.latest.EventType # "ARRIVED"
           \/ t.cutoff = NoCutoff
           \/ t.latest.EventTimeUtc > t.cutoff)
         => /\ t.wrote = {}
            /\ t.pending = {}
  /\ \A p \in Procs : req[p].status = 500 => req[p].faulted

\* C10 witness: a task run that read a terminal event as the student's latest
\* has ended without writing.
C10_Witness ==
  \E t \in tasks :
    /\ t.pc = "done"
    /\ ~t.fault
    /\ t.latest.LogId # 0
    /\ t.latest.EventType # "ARRIVED"
    /\ t.wrote = {}

\* C11: the committed log is append-only -- no step of any request or
\* deferred task removes or changes a committed row, a newly committed row
\* never takes the LogId of a committed row, and no two committed rows share
\* a LogId.
C11_AppendOnly ==
  [][/\ ScanLogs \subseteq ScanLogs'
     /\ \A w \in ScanLogs' \ ScanLogs : w.LogId \notin Ids(ScanLogs)
     /\ Cardinality(Ids(ScanLogs')) = Cardinality(ScanLogs')]_vars

\* C11 witness: the log holds a scanned row and the automatic row a committed
\* pass added after it, and a read-only request has just been served.
C11_Witness ==
  /\ \E a, b \in ScanLogs : a.Notes = ScanNotes /\ Auto(b) /\ b.seen = a.LogId
  /\ \E p \in Procs : req[p].pc = "done" /\ req[p].kind \in {"student", "health"}

\* C12: a POST /scan whose event_type normalizes to no kind ends with 400
\* without having touched the database, whatever its student code: no pass
\* was run, no row inserted or committed, no deferred task scheduled.
C12_InvalidKindIs400 ==
  \A p \in Procs :
    (Ended(p, "scan") /\ normalize_event_type(req[p].scan_req[2]) = "400") =>
      /\ req[p].status = 400
      /\ req[p].cutoff = NoCutoff
      /\ req[p].passIns = {}
      /\ req[p].pending = {}
      /\ req[p].wrote = {}
      /\ req[p].new_id = 0
      /\ req[p].scheduled = 0
      /\ ~req[p].faulted

\* C12 witness: a scan of a registered student with an unrecognised kind has
\* ended, while the log holds rows and a deferred task is waiting.
C12_Witness ==
  \E p \in Procs :
    /\ Ended(p, "scan")
    /\ strip(req[p].scan_req[1]) \in Students
    /\ normalize_event_type(req[p].scan_req[2]) = "400"
    /\ ScanLogs # {}
    /\ tasks # {}

\* C13: normalize_event_type is a total classification -- the alias table
\* gives every key one kind; for every string the result is a kind of
\* VALID_EVENT_TYPES or the 400 failure, a kind exactly when the cleaned
\* string is a key of the alias table or, in upper case, the name of a kind,
\* and then the kind of that key or name; and applied to the name of a kind it
\* has returned, it returns that kind.
C13_TotalClassification ==
  /\ \A a, b \in EVENT_TYPE_ALIASES : a[1] = b[1] => a = b
  /\ \A a \in EVENT_TYPE_ALIASES : a[2] \in VALID_EVENT_TYPES
  /\ \A p \in Procs :
       /\ (req[p].kind = "norm" /\ req[p].pc \in {"renorm", "done"}) =>
            LET c == CleanEventType(req[p].scan_req[2])
                et == req[p].event_type
                isKey == \E a \in EVENT_TYPE_ALIASES : a[1] = c
                isName == \E k \in KindChars : k[1] = UpperAll(c)
            IN /\ et \in VALID_EVENT_TYPES \cup {"400"}
               /\ et \in VALID_EVENT_TYPES <=> (isKey \/ isName)
               /\ et = "400" <=> req[p].status = 400
               /\ \A a \in EVENT_TYPE_ALIASES : a[1] = c => et = a[2]
               /\ \A k \in KindChars : (k[1] = UpperAll(c) /\ ~isKey) => et = k[2]
       /\ (req[p].kind = "renorm" /\ req[p].pc = "done") =>
            /\ req[p].event_type \in VALID_EVENT_TYPES
            /\ KindString(req[p].event_type) = req[p].scan_req[2]

\* C13 witness: a string that is not written as its cleaned form (capitals,
\* blanks, a hyphen, other characters) has been classified as NO_CALL.
C13_Witness ==
  \E p \in Procs :
    /\ req[p].kind = "norm"
    /\ req[p].pc = "renorm"
    /\ req[p].event_type = "NO_CALL"
    /\ \E k \in 1..Len(req[p].scan_req[2]) : req[p].scan_req[2][k] = "-"
    /\ CleanEventType(req[p].scan_req[2]) # req[p].scan_req[2]

\* C14: the response of a successful POST /scan holds the columns of the row
\* the scan persisted and, beside them, a flag that is TRUE exactly when the
\* student's ParentPhone is not empty.  (Does not hold: the response has the
\* columns of the row and nothing else.)
C14_ResponseHasContactFlag ==
  \A p \in Procs :
    (Ended(p, "scan") /\ req[p].status = 200) =>
      LET resp == req[p].response
          mine == CHOOSE w \in ScanLogs : w.LogId = req[p].new_id
          columns == DOMAIN ListedRow(mine)
      IN /\ \A k \in columns : resp[k] = ListedRow(mine)[k]
         /\ \E k \in (DOMAIN resp) \ columns :
              resp[k] = (StudentRecord(req[p].student_code).ParentPhone # "")

\* C15: every NO_SHOW row that finalize_expired_arrivals inserts carries the
\* student name, DOB, bus number and driver, aide and stop codes of the
\* ARRIVED row that was the student's latest event (timestamp, then LogId)
\* when the row was converted.  (Does not hold: with two ARRIVED rows of one
\* timestamp the columns are taken from the candidate row, which need not be
\* the latest one.)
C15_CarriesLatestArrived ==
  \A w \in AllRows :
    w.Notes = "auto" =>
      \E a \in ScanLogs :
        /\ a.LogId = w.seen
        /\ a.EventType = "ARRIVED"
        /\ Carried(w) = Carried(a)

\* A handler is running.
Busy == \E p \in Procs : req[p].pc \notin {"idle", "done"}

\* The ARRIVED row with this LogId is committed and its student's latest
\* event, its deferred task is asleep, no handler is running, and the clock
\* and the LogIds of the model reach far enough for the task to act.
AwaitsFallback(id) ==
  /\ ~Busy
  /\ nextId <= MaxIdSeq
  /\ \E t \in tasks :
       /\ t.id = id
       /\ t.pc = "sleep"
       /\ t.slept_from + SleepTicks <= MaxTime
       /\ LatestOf(ScanLogs, t.student_code).LogId = id

\* The student of the row with this LogId has a NO_SHOW as latest event.
ConvertedAfter(id) ==
  \E w \in ScanLogs :
    /\ w.LogId = id
    /\ LatestOf(ScanLogs, w.StudentCode).EventType = "NO_SHOW"

\* C16: once an ARRIVED row is committed, is its student's latest event and
\* has its deferred task asleep, the student's latest event eventually is a
\* NO_SHOW, unless another request arrives.
C16_FallbackLiveness ==
  \A id \in 1..MaxIdSeq :
    AwaitsFallback(id) ~> (ConvertedAfter(id) \/ Busy)

\* C16 witness: the deferred task of an ARRIVED row has committed the NO_SHOW
\* row that is now the student's latest event.
C16_Witness ==
  \E w \in ScanLogs, t \in tasks :
    /\ w.Notes = "bg"
    /\ t.pc = "done"
    /\ w.LogId \in t.wrote
    /\ w.seen = t.id
    /\ LatestOf(ScanLogs, w.StudentCode) = w

\* C17: when GET /logs/recent or POST /scan has answered 200, every row of
\* its response is a committed row of ScanLogs.  (Does not hold: recent_logs
\* lists the rows its own pass inserted and then rolls them back.)
C17_ResponsesArePersisted ==
  \A p \in Procs :
    (req[p].pc = "done" /\ req[p].status = 200) =>
      LET persisted == {ListedRow(w) : w \in ScanLogs}
      IN /\ req[p].kind = "scan" => req[p].response \in persisted
         /\ req[p].kind = "recent" =>
              \A k \in 1..Len(req[p].response) : req[p].response[k] \in persisted

\* C18: with one request at a time, when a POST /scan has answered 200 the
\* row it inserted is its student's latest event (timestamp, then LogId);
\* the NO_SHOW rows its inline pass inserted are committed with it and come
\* before it in timestamp order and in LogId order.
C18_ScannedRowIsLatest ==
  \A p \in Procs :
    (Ended(p, "scan") /\ req[p].status = 200) =>
      LET r == req[p]
          mine == CHOOSE w \in ScanLogs : w.LogId = r.new_id
      IN /\ mine.StudentCode = r.student_code
         /\ mine.EventType = r.event_type
         /\ LatestOf(ScanLogs, r.student_code) = mine
         /\ r.wrote = r.passIns \cup {r.new_id}
         /\ r.wrote \subseteq Ids(ScanLogs)
         /\ \A w \in RowsOf(ScanLogs, r.passIns) :
              /\ w.EventTimeUtc <= mine.EventTimeUtc
              /\ w.LogId < mine.LogId

\* C18 witness: such a scan followed the conversion, by its own inline pass,
\* of a stale ARRIVED of the same student.
C18_Witness ==
  \E p \in Procs :
    /\ Ended(p, "scan") /\ req[p].status = 200
    /\ \E w \in RowsOf(ScanLogs, req[p].passIns) :
         /\ w.StudentCode = req[p].student_code
         /\ w.EventType = "NO_SHOW"
         /\ w.EventTimeUtc = (CHOOSE m \in ScanLogs : m.LogId = req[p].new_id).EventTimeUtc

====
